---- MODULE Spec2Model ----
(***************************************************************************)
(* Verification model of @idm-auth/auth-client: the identifier codec       *)
(* (GRN and Action), and the two remote-validation protocols               *)
(* validateAuthentication and authorize.                                    *)
(*                                                                         *)
(* Texts are sequences of one-character strings, so that String.split(':') *)
(* and template-literal concatenation are computed, not assumed.           *)
(* JavaScript values are tagged records: the tag t names the runtime type. *)
(***************************************************************************)
EXTENDS Integers, Sequences, FiniteSets, TLC

VARIABLES orig, cur, ops,      \* codec: the input, the current value, the operations applied
          pc,                  \* call -> "idle" | "awaiting" | "resolved" | "rejected"
          request,             \* call -> the arguments of the call
          reply,               \* call -> what the transport's post did
          outcome,             \* call -> the value the call resolved or rejected with
          posts,               \* call -> the post invocations the transport recorded
          gets,                \* call -> the number of get invocations
          span,                \* call -> the span of the call
          events,              \* call -> tracer and transport operations, in order
          tracer,              \* call -> "recording" | "noop": the tracer the call runs with
          method,              \* fetch call -> "none" | "POST" | "GET"
          fpc,                 \* fetch call -> "idle" | "fetching" | "reading" | "resolved" | "rejected"
          status,              \* fetch call -> "none" | the HTTP status of the response
          timer,               \* fetch call -> "none" | "armed" | "fired" | "cleared"
          elapsed,             \* fetch call -> the configured timeout has passed before it settled
          fout                 \* fetch call -> the value the call resolved or rejected with

codecVars == <<orig, cur, ops>>
protoVars == <<pc, request, reply, outcome, posts, gets, span, events>>
fetchVars == <<method, fpc, status, timer, elapsed, fout>>
vars == <<orig, cur, ops, pc, request, reply, outcome, posts, gets, span, events,
          tracer, method, fpc, status, timer, elapsed, fout>>

(***************************************************************************)
(* Bounds                                                                  *)
(***************************************************************************)
MaxFields == 7      \* texts of the codec specification have 1..MaxFields fields
MaxOps == 2         \* codec operations applied in a row to one input
NumCalls == 2       \* protocol calls that may be in flight together

(***************************************************************************)
(* Texts                                                                   *)
(***************************************************************************)
Colon == ":"
EmptyText == <<>>
GrnPrefix == <<"g", "r", "n">>
Undefined == <<"undefined">>    \* the absent value of an optional string field

\* JavaScript truthiness of an optional string: undefined and '' are falsy
Falsy(x) == x = Undefined \/ x = EmptyText

RECURSIVE Split(_)
\* String.prototype.split(':'): always at least one part
Split(s) ==
  IF s = EmptyText THEN << EmptyText >>
  ELSE LET rest == Split(Tail(s)) IN
       IF Head(s) = Colon THEN << EmptyText >> \o rest
       ELSE << <<Head(s)>> \o Head(rest) >> \o Tail(rest)

\* JavaScript values: strings of the protocol layer, undefined, Error objects
StrV(x) == [t |-> "string", str |-> x]
JsUndefined == [t |-> "undefined"]
JsError(name, m) == [t |-> "error", name |-> StrV(name), message |-> StrV(m)]

\* a text value, an abrupt completion with a thrown Error, a boolean
TextV(s) == [t |-> "text", s |-> s]
Threw(m) == [t |-> "threw", error |-> JsError("Error", m)]
BoolV(b) == [t |-> "bool", b |-> b]
GrnV(g) == [t |-> "grn", g |-> g]
ActionV(a) == [t |-> "action", a |-> a]

InvalidGrnMessage ==
  "Invalid GRN format. Expected: grn:partition:system:region:tenantId:resource"
InvalidActionMessage ==
  "Invalid Action format. Expected: system:resource:operation"

(***************************************************************************)
(* util/grn.ts                                                             *)
(***************************************************************************)
isValidGrn_NoResourceCheck(grn) ==
  LET parts == Split(grn) IN
    /\ Len(parts) = 6
    /\ parts[1] = GrnPrefix
    /\ parts[3] # EmptyText

isValidGrn(grn) ==
  LET parts == Split(grn) IN
    /\ Len(parts) = 6
    /\ parts[1] = GrnPrefix
    /\ parts[3] # EmptyText
    /\ parts[6] # EmptyText

parseGrn_LengthOnly(grn) ==
  LET parts == Split(grn) IN
  IF Len(parts) # 6 THEN Threw(InvalidGrnMessage)
  ELSE GrnV([partition |-> IF parts[2] = EmptyText THEN Undefined ELSE parts[2],
             system    |-> parts[3],
             region    |-> IF parts[4] = EmptyText THEN Undefined ELSE parts[4],
             tenantId  |-> IF parts[5] = EmptyText THEN Undefined ELSE parts[5],
             resource  |-> parts[6]])

parseGrn_RegionTenantSwapped(grn) ==
  IF ~isValidGrn(grn) THEN Threw(InvalidGrnMessage)
  ELSE LET parts == Split(grn) IN
       GrnV([partition |-> IF parts[2] = EmptyText THEN Undefined ELSE parts[2],
             system    |-> parts[3],
             region    |-> IF parts[5] = EmptyText THEN Undefined ELSE parts[5],
             tenantId  |-> IF parts[4] = EmptyText THEN Undefined ELSE parts[4],
             resource  |-> parts[6]])

parseGrn_KeepEmpty(grn) ==
  IF ~isValidGrn(grn) THEN Threw(InvalidGrnMessage)
  ELSE LET parts == Split(grn) IN
       GrnV([partition |-> parts[2],
             system    |-> parts[3],
             region    |-> parts[4],
             tenantId  |-> parts[5],
             resource  |-> parts[6]])

parseGrn(grn) ==
  IF ~isValidGrn(grn) THEN Threw(InvalidGrnMessage)
  ELSE LET parts == Split(grn) IN
       GrnV([partition |-> IF parts[2] = EmptyText THEN Undefined ELSE parts[2],
             system    |-> parts[3],
             region    |-> IF parts[4] = EmptyText THEN Undefined ELSE parts[4],
             tenantId  |-> IF parts[5] = EmptyText THEN Undefined ELSE parts[5],
             resource  |-> parts[6]])

stringifyGrn_SkipAbsentPartition(grn) ==
  GrnPrefix \o (IF Falsy(grn.partition) THEN EmptyText ELSE <<Colon>> \o grn.partition)
            \o <<Colon>> \o grn.system
            \o <<Colon>> \o (IF Falsy(grn.region) THEN EmptyText ELSE grn.region)
            \o <<Colon>> \o (IF Falsy(grn.tenantId) THEN EmptyText ELSE grn.tenantId)
            \o <<Colon>> \o grn.resource

stringifyGrn_DropEmptyRegion(grn) ==
  GrnPrefix \o <<Colon>> \o (IF Falsy(grn.partition) THEN EmptyText ELSE grn.partition)
            \o <<Colon>> \o grn.system
            \o (IF Falsy(grn.region) THEN EmptyText ELSE <<Colon>> \o grn.region)
            \o <<Colon>> \o (IF Falsy(grn.tenantId) THEN EmptyText ELSE grn.tenantId)
            \o <<Colon>> \o grn.resource

stringifyGrn(grn) ==
  GrnPrefix \o <<Colon>> \o (IF Falsy(grn.partition) THEN EmptyText ELSE grn.partition)
            \o <<Colon>> \o grn.system
            \o <<Colon>> \o (IF Falsy(grn.region) THEN EmptyText ELSE grn.region)
            \o <<Colon>> \o (IF Falsy(grn.tenantId) THEN EmptyText ELSE grn.tenantId)
            \o <<Colon>> \o grn.resource

(***************************************************************************)
(* util/action.ts                                                          *)
(***************************************************************************)
isValidAction_NoOperationCheck(action) ==
  LET parts == Split(action) IN
    /\ Len(parts) = 3
    /\ parts[1] # EmptyText
    /\ parts[2] # EmptyText

isValidAction(action) ==
  LET parts == Split(action) IN
    /\ Len(parts) = 3
    /\ parts[1] # EmptyText
    /\ parts[2] # EmptyText
    /\ parts[3] # EmptyText

parseAction_LengthOnly(action) ==
  LET parts == Split(action) IN
  IF Len(parts) # 3 THEN Threw(InvalidActionMessage)
  ELSE ActionV([system    |-> parts[1],
                resource  |-> parts[2],
                operation |-> parts[3]])

parseAction_Swapped(action) ==
  IF ~isValidAction(action) THEN Threw(InvalidActionMessage)
  ELSE LET parts == Split(action) IN
       ActionV([system    |-> parts[1],
                resource  |-> parts[3],
                operation |-> parts[2]])

parseAction(action) ==
  IF ~isValidAction(action) THEN Threw(InvalidActionMessage)
  ELSE LET parts == Split(action) IN
       ActionV([system    |-> parts[1],
                resource  |-> parts[2],
                operation |-> parts[3]])

stringifyAction(action) ==
  action.system \o <<Colon>> \o action.resource \o <<Colon>> \o action.operation

(***************************************************************************)
(* Codec specification: one input, codec operations applied in a row      *)
(***************************************************************************)
RECURSIVE Join(_)
\* the text whose fields are fs, separated by ':'
Join(fs) ==
  IF Len(fs) = 1 THEN fs[1] ELSE fs[1] \o <<Colon>> \o Join(Tail(fs))

FieldPool == { EmptyText, GrnPrefix, <<"a">>, <<"*">> }
ColonText == <<"a", ":", "a">>
RequiredPool == { EmptyText, <<"a">>, <<"*">>, ColonText }
OptionalPool == { Undefined, EmptyText, <<"a">>, ColonText }

Texts == { Join(fs) : fs \in UNION { [1..n -> FieldPool] : n \in 1..MaxFields } }
GrnValues == [partition : OptionalPool, system : RequiredPool,
              region : OptionalPool, tenantId : OptionalPool,
              resource : RequiredPool]
ActionValues == [system : RequiredPool, resource : RequiredPool,
                 operation : RequiredPool]

NoValue == [t |-> "none"]

ProtoInit ==
  /\ pc = [c \in 1..NumCalls |-> "idle"]
  /\ request = [c \in 1..NumCalls |-> NoValue]
  /\ reply = [c \in 1..NumCalls |-> NoValue]
  /\ outcome = [c \in 1..NumCalls |-> NoValue]
  /\ posts = [c \in 1..NumCalls |-> << >>]
  /\ gets = [c \in 1..NumCalls |-> 0]
  /\ span = [c \in 1..NumCalls |-> NoValue]
  /\ events = [c \in 1..NumCalls |-> << >>]

\* every call runs with a tracer that records
RecordingTracer == tracer = [c \in 1..NumCalls |-> "recording"]

\* no FetchHttpClient call has been made
FetchIdle ==
  /\ method = [k \in 1..NumCalls |-> "none"]
  /\ fpc = [k \in 1..NumCalls |-> "idle"]
  /\ status = [k \in 1..NumCalls |-> "none"]
  /\ timer = [k \in 1..NumCalls |-> "none"]
  /\ elapsed = [k \in 1..NumCalls |-> FALSE]
  /\ fout = [k \in 1..NumCalls |-> NoValue]

CodecInit ==
  /\ orig \in { TextV(s) : s \in Texts }
              \cup { GrnV(g) : g \in GrnValues }
              \cup { ActionV(a) : a \in ActionValues }
  /\ cur = orig
  /\ ops = << >>
  /\ ProtoInit
  /\ RecordingTracer
  /\ FetchIdle

Apply(op, result) ==
  /\ Len(ops) < MaxOps
  /\ cur' = result
  /\ ops' = Append(ops, op)
  /\ UNCHANGED <<orig, pc, request, reply, outcome, posts, gets, span, events>>
  /\ UNCHANGED <<tracer, fetchVars>>

IsValidGrn == cur.t = "text" /\ Apply("isValidGrn", BoolV(isValidGrn(cur.s)))
ParseGrn == cur.t = "text" /\ Apply("parseGrn", parseGrn(cur.s))
StringifyGrn == cur.t = "grn" /\ Apply("stringifyGrn", TextV(stringifyGrn(cur.g)))
IsValidAction == cur.t = "text" /\ Apply("isValidAction", BoolV(isValidAction(cur.s)))
ParseAction == cur.t = "text" /\ Apply("parseAction", parseAction(cur.s))
StringifyAction == cur.t = "action" /\ Apply("stringifyAction", TextV(stringifyAction(cur.a)))

CodecNext ==
  \/ IsValidGrn
  \/ ParseGrn
  \/ StringifyGrn
  \/ IsValidAction
  \/ ParseAction
  \/ StringifyAction

SpecCodec == CodecInit /\ [][CodecNext]_vars

(***************************************************************************)
(* Codec properties                                                        *)
(***************************************************************************)
\* positions of the separators of a text, and its fields read off by position
ColonPos(s) == { i \in 1..Len(s) : s[i] = Colon }
KthColon(s, k) ==
  CHOOSE i \in ColonPos(s) : Cardinality({ j \in ColonPos(s) : j < i }) = k - 1
FieldCount(s) == Cardinality(ColonPos(s)) + 1
\* field k, counted from 0 as the code's parts[k]
FieldAt(s, k) ==
  LET from == IF k = 0 THEN 1 ELSE KthColon(s, k) + 1
      to   == IF k = FieldCount(s) - 1 THEN Len(s) ELSE KthColon(s, k + 1) - 1
  IN SubSeq(s, from, to)

WellFormedGrnText(s) ==
  /\ FieldCount(s) = 6
  /\ FieldAt(s, 0) = GrnPrefix
  /\ FieldAt(s, 2) # EmptyText
  /\ FieldAt(s, 5) # EmptyText

WellFormedActionText(s) ==
  /\ FieldCount(s) = 3
  /\ \A k \in 0..2 : FieldAt(s, k) # EmptyText

HasColon(x) == \E i \in 1..Len(x) : x[i] = Colon
\* a field that a text can carry: non-empty and free of the separator
PlainField(x) == x # Undefined /\ x # EmptyText /\ ~HasColon(x)
CanonicalGrn(g) ==
  /\ PlainField(g.system)
  /\ PlainField(g.resource)
  /\ \A x \in {g.partition, g.region, g.tenantId} : x = Undefined \/ PlainField(x)
CanonicalAction(a) ==
  PlainField(a.system) /\ PlainField(a.resource) /\ PlainField(a.operation)

\* C7: for every text s with isValidGrn(s) = true, parseGrn(s) succeeds and
\* stringifyGrn(parseGrn(s)) is s again.
C7_GrnTextRoundTrip ==
  /\ (orig.t = "text" /\ ops = <<"parseGrn">> /\ WellFormedGrnText(orig.s))
        => cur.t = "grn"
  /\ (orig.t = "text" /\ ops = <<"parseGrn", "stringifyGrn">>) => cur = orig

\* a valid text with empty partition, region and tenantId went through
\* parseGrn and stringifyGrn and came back unchanged
C7_Witness ==
  /\ ops = <<"parseGrn", "stringifyGrn">>
  /\ orig = TextV(Join(<<GrnPrefix, EmptyText, <<"a">>, EmptyText, EmptyText, <<"*">> >>))
  /\ cur = orig

\* C8 as stated: for every structured value v with system and resource set,
\* parseGrn(stringifyGrn(v)) succeeds and equals v.
C8_Original ==
  (/\ orig.t = "grn"
   /\ orig.g.system # EmptyText
   /\ orig.g.resource # EmptyText
   /\ ops = <<"stringifyGrn", "parseGrn">>)
    => cur = orig

\* C8 amended: for every structured value v whose system and resource are
\* non-empty, whose optional fields are each absent or non-empty, and none of
\* whose fields contains ':', parseGrn(stringifyGrn(v)) succeeds and equals
\* v, absent optional fields coming back absent.
C8_GrnValueRoundTrip ==
  (/\ orig.t = "grn"
   /\ CanonicalGrn(orig.g)
   /\ ops = <<"stringifyGrn", "parseGrn">>)
    => cur = orig

\* a canonical value with absent optional fields was serialized and parsed
\* back, and the absent fields are absent again
C8_Witness ==
  /\ ops = <<"stringifyGrn", "parseGrn">>
  /\ orig = GrnV([partition |-> Undefined, system |-> <<"a">>,
                  region |-> Undefined, tenantId |-> <<"a">>,
                  resource |-> <<"*">>])
  /\ cur = orig

\* C9 as stated: stringifyAction(parseAction(s)) = s for every valid text s,
\* and parseAction(stringifyAction(v)) = v for every structured action v.
C9_Original ==
  /\ (orig.t = "text" /\ ops = <<"parseAction", "stringifyAction">>) => cur = orig
  /\ (orig.t = "action" /\ ops = <<"stringifyAction", "parseAction">>) => cur = orig

\* C9 amended: stringifyAction(parseAction(s)) = s for every text s with
\* isValidAction(s) = true, and parseAction(stringifyAction(v)) = v for every
\* structured action v whose three fields are non-empty and contain no ':'.
C9_ActionRoundTrip ==
  /\ (orig.t = "text" /\ ops = <<"parseAction">> /\ WellFormedActionText(orig.s))
        => cur.t = "action"
  /\ (orig.t = "text" /\ ops = <<"parseAction", "stringifyAction">>) => cur = orig
  /\ (orig.t = "action" /\ CanonicalAction(orig.a)
        /\ ops = <<"stringifyAction", "parseAction">>) => cur = orig

\* a valid action text with three different fields went through parseAction
\* and stringifyAction and came back unchanged
C9_Witness ==
  /\ ops = <<"parseAction", "stringifyAction">>
  /\ orig = TextV(Join(<< <<"a">>, <<"*">>, GrnPrefix >>))
  /\ cur = orig

\* C10: isValidGrn(s) never fails, and returns true exactly when s has 6
\* fields, field 0 is 'grn', field 2 (system) is non-empty and field 5
\* (resource) is non-empty; fields 1, 3 and 4 may be empty.
C10_IsValidGrn ==
  (orig.t = "text" /\ ops = <<"isValidGrn">>)
    => cur = BoolV(WellFormedGrnText(orig.s))

\* isValidGrn accepted a text whose fields 1, 3 and 4 are empty
C10_Witness ==
  /\ ops = <<"isValidGrn">>
  /\ orig = TextV(Join(<<GrnPrefix, EmptyText, <<"a">>, EmptyText, EmptyText, <<"a">> >>))
  /\ cur = BoolV(TRUE)

(***************************************************************************)
(* Protocol layer: requests, transport behaviour, spans                    *)
(***************************************************************************)
Calls == 1..NumCalls

ServiceUrls == { "https://idm-auth.example.com" }
Realms == { "realm-uuid-123" }
Systems == { "my-app" }
Tokens == { "jwt.token.here" }

ValidActionText == Join(<< <<"s">>, <<"r">>, <<"o">> >>)
MalformedActionText == Join(<< <<"s">>, <<"r">> >>)
ValidGrnText == Join(<<GrnPrefix, <<"p">>, <<"s">>, EmptyText, <<"t">>, <<"r", "/", "1">> >>)
MalformedGrnText == Join(<<GrnPrefix, <<"p">>, <<"s">>, <<"t">>, <<"r">> >>)

\* request.action and request.grn: string | structured
ActionInputs ==
  { TextV(ValidActionText),
    ActionV([system |-> <<"s">>, resource |-> <<"r">>, operation |-> <<"o">>]),
    TextV(MalformedActionText) }
GrnInputs ==
  { TextV(ValidGrnText),
    GrnV([partition |-> <<"p">>, system |-> <<"s">>, region |-> Undefined,
          tenantId |-> <<"t">>, resource |-> <<"r", "/", "1">>]),
    TextV(MalformedGrnText) }

AuthenticationValidationRequests ==
  [system : Systems, token : Tokens, applicationRealmPublicUUID : Realms]
\* structured values the types admit although no text denotes them
EmptySystemAction ==
  ActionV([system |-> EmptyText, resource |-> <<"r">>, operation |-> <<"o">>])
EmptyResourceGrn ==
  GrnV([partition |-> Undefined, system |-> <<"s">>, region |-> Undefined,
        tenantId |-> Undefined, resource |-> EmptyText])

AuthorizationRequests ==
  [applicationRealmPublicUUID : Realms, idmAuthUserToken : Tokens,
   action : ActionInputs, grn : GrnInputs]
    \cup [applicationRealmPublicUUID : Realms, idmAuthUserToken : Tokens,
          action : { EmptySystemAction }, grn : { EmptyResourceGrn }]

\* what the remote authority may answer, and what a transport may fail with
AuthenticationResponses ==
  { [t |-> "object", valid |-> BoolV(TRUE), accountId |-> StrV("acc-1")],
    [t |-> "object", valid |-> BoolV(FALSE), error |-> StrV("Token expired")],
    [t |-> "object", accountId |-> StrV("acc-1")],
    JsUndefined }
AuthorizationResponses ==
  { [t |-> "object", allowed |-> BoolV(TRUE), payload |-> StrV("{}")],
    [t |-> "object", allowed |-> BoolV(FALSE), error |-> StrV("Access denied")],
    JsUndefined }
TransportErrors == { JsError("Error", "Network error") }
RejectionValues == TransportErrors \cup { StrV("boom"), JsUndefined }

\* property read v[f]: a TypeError on undefined, undefined when f is missing
CanRead(v) == v.t # "undefined"
Prop(v, f) == IF f \in DOMAIN v THEN v[f] ELSE JsUndefined
TypeErrorReading(f) ==
  JsError("TypeError", "Cannot read properties of undefined (reading '" \o f \o "')")

Fulfilled(v) == [kind |-> "fulfilled", v |-> v]
Rejected(v) == [kind |-> "rejected", v |-> v]

TryBlock_FlagOnly(settled, flagAttr, flag) ==
  IF settled.kind = "fulfilled"
  THEN IF CanRead(settled.v)
       THEN [c |-> "return",
             v |-> (flag :> Prop(settled.v, flag)) @@ [t |-> "object"],
             attrs |-> (flagAttr :> Prop(settled.v, flag))]
       ELSE [c |-> "throw", v |-> TypeErrorReading(flag)]
  ELSE [c |-> "throw", v |-> settled.v]

\* the try block after the awaited post has settled: the result is returned
\* with its flag recorded on the span, or control passes to the catch block
TryBlock(settled, flagAttr, flag) ==
  IF settled.kind = "fulfilled"
  THEN IF CanRead(settled.v)
       THEN [c |-> "return", v |-> settled.v,
             attrs |-> (flagAttr :> Prop(settled.v, flag))]
       ELSE [c |-> "throw", v |-> TypeErrorReading(flag)]
  ELSE [c |-> "throw", v |-> settled.v]

(***************************************************************************)
(* auth/validateAuthentication.ts                                          *)
(***************************************************************************)
validateAuthenticationUrl(idmAuthServiceUrl, req) ==
  idmAuthServiceUrl \o "/realm/" \o req.applicationRealmPublicUUID \o "/auth/validate"

validateAuthenticationPost_SystemInBody(idmAuthServiceUrl, req) ==
  [url |-> validateAuthenticationUrl(idmAuthServiceUrl, req),
   data |-> [token |-> req.token, system |-> req.system],
   options |-> [headers |-> ("Content-Type" :> "application/json")]]

validateAuthenticationPost(idmAuthServiceUrl, req) ==
  [url |-> validateAuthenticationUrl(idmAuthServiceUrl, req),
   data |-> [token |-> req.token],
   options |-> [headers |-> ("Content-Type" :> "application/json")
                               @@ ("X-IDM-System" :> req.system)]]

validateAuthenticationAttributes(req) ==
  ("idm-auth-client.operation" :> StrV("validateAuthentication"))
    @@ ("idm-auth-client.system" :> StrV(req.system))
    @@ ("idm-auth-client.realm_id" :> StrV(req.applicationRealmPublicUUID))

validateAuthenticationCatch_KeepsIdentity(error) ==
  IF CanRead(error)
  THEN [c |-> "return",
        v |-> [t |-> "object", valid |-> BoolV(FALSE), error |-> Prop(error, "message"),
               accountId |-> StrV("acc-1")]]
  ELSE [c |-> "throw", v |-> TypeErrorReading("message")]

validateAuthenticationCatch_ErrorName(error) ==
  IF CanRead(error)
  THEN [c |-> "return",
        v |-> [t |-> "object", valid |-> BoolV(FALSE), error |-> Prop(error, "name")]]
  ELSE [c |-> "throw", v |-> TypeErrorReading("name")]

\* catch (error) { ...; return { valid: false, error: error.message } }
validateAuthenticationCatch(error) ==
  IF CanRead(error)
  THEN [c |-> "return",
        v |-> [t |-> "object", valid |-> BoolV(FALSE), error |-> Prop(error, "message")]]
  ELSE [c |-> "throw", v |-> TypeErrorReading("message")]

(***************************************************************************)
(* auth/authorize.ts                                                       *)
(***************************************************************************)
authorizeNormalize_StructuredValidated(req) ==
  LET grn == IF req.grn.t = "text" THEN parseGrn(req.grn.s)
             ELSE parseGrn(stringifyGrn(req.grn.g))
      action == IF req.action.t = "text" THEN parseAction(req.action.s)
                ELSE parseAction(stringifyAction(req.action.a))
  IN IF grn.t = "threw" THEN grn
     ELSE IF action.t = "threw" THEN action
     ELSE [t |-> "normalized", grn |-> grn.g, action |-> action.a]

authorizeNormalize_ActionUnchecked(req) ==
  LET grn == IF req.grn.t = "text" THEN parseGrn(req.grn.s) ELSE req.grn
      parts == Split(req.action.s)
      part(k) == IF k <= Len(parts) THEN parts[k] ELSE Undefined
      action == IF req.action.t = "text"
                THEN ActionV([system |-> part(1), resource |-> part(2),
                              operation |-> part(3)])
                ELSE req.action
  IN IF grn.t = "threw" THEN grn
     ELSE [t |-> "normalized", grn |-> grn.g, action |-> action.a]

authorizeNormalize_TextGrnShifted(req) ==
  LET parsed == parseGrn(req.grn.s)
      grn == IF req.grn.t = "text"
             THEN IF parsed.t = "threw" THEN parsed
                  ELSE GrnV([parsed.g EXCEPT !.region = parsed.g.tenantId,
                                             !.tenantId = parsed.g.region])
             ELSE req.grn
      action == IF req.action.t = "text" THEN parseAction(req.action.s) ELSE req.action
  IN IF grn.t = "threw" THEN grn
     ELSE IF action.t = "threw" THEN action
     ELSE [t |-> "normalized", grn |-> grn.g, action |-> action.a]

\* const grn = typeof request.grn === 'string' ? parseGrn(request.grn) : request.grn
\* const action = typeof request.action === 'string' ? parseAction(...) : request.action
authorizeNormalize(req) ==
  LET grn == IF req.grn.t = "text" THEN parseGrn(req.grn.s) ELSE req.grn
      action == IF req.action.t = "text" THEN parseAction(req.action.s) ELSE req.action
  IN IF grn.t = "threw" THEN grn
     ELSE IF action.t = "threw" THEN action
     ELSE [t |-> "normalized", grn |-> grn.g, action |-> action.a]

authorizeUrl(idmAuthServiceUrl, req) ==
  idmAuthServiceUrl \o "/realm/" \o req.applicationRealmPublicUUID \o "/authz/evaluate"

authorizePost_OperationDropped(idmAuthServiceUrl, req, action, grn) ==
  [url |-> authorizeUrl(idmAuthServiceUrl, req),
   data |-> [userToken |-> req.idmAuthUserToken,
             action |-> action.system \o <<Colon>> \o action.resource,
             grn |-> stringifyGrn(grn)],
   options |-> [headers |-> ("Content-Type" :> "application/json")]]

authorizePost_SwappedIdentifiers(idmAuthServiceUrl, req, action, grn) ==
  [url |-> authorizeUrl(idmAuthServiceUrl, req),
   data |-> [userToken |-> req.idmAuthUserToken,
             action |-> stringifyGrn(grn),
             grn |-> stringifyAction(action)],
   options |-> [headers |-> ("Content-Type" :> "application/json")]]

authorizePost(idmAuthServiceUrl, req, action, grn) ==
  [url |-> authorizeUrl(idmAuthServiceUrl, req),
   data |-> [userToken |-> req.idmAuthUserToken,
             action |-> stringifyAction(action),
             grn |-> stringifyGrn(grn)],
   options |-> [headers |-> ("Content-Type" :> "application/json")]]

authorizeAttributes(action, grn) ==
  ("idm-auth-client.operation" :> StrV("authorize"))
    @@ ("idm-auth-client.action.system" :> TextV(action.system))
    @@ ("idm-auth-client.action.resource" :> TextV(action.resource))
    @@ ("idm-auth-client.action.operation" :> TextV(action.operation))
    @@ ("idm-auth-client.grn.system" :> TextV(grn.system))
    @@ ("idm-auth-client.grn.resource" :> TextV(grn.resource))
    @@ (IF Falsy(grn.tenantId) THEN << >>
        ELSE ("idm-auth-client.grn.tenant_id" :> TextV(grn.tenantId)))

authorizeCatch_Denies(error) ==
  IF CanRead(error)
  THEN [c |-> "return",
        v |-> [t |-> "object", allowed |-> BoolV(FALSE), error |-> Prop(error, "message")]]
  ELSE [c |-> "throw", v |-> TypeErrorReading("message")]

\* catch (error) { span.recordException(error); throw error; }
authorizeCatch(error) == [c |-> "throw", v |-> error]

(***************************************************************************)
(* Calls                                                                   *)
(***************************************************************************)
NewSpan(name, attributes) ==
  [t |-> "span", name |-> name, attributes |-> attributes,
   exceptions |-> << >>, ended |-> 0]

\* the span a tracer without a registered provider hands to the callback:
\* setAttributes, recordException and end leave it as it is
NonRecordingSpan == [t |-> "nonrecording"]
IsRecording(sp) == sp.t = "span"

\* tracer.startActiveSpan(name, callback) followed by span.setAttributes
startActiveSpan(tr, name, attributes) ==
  IF tr = "noop" THEN NonRecordingSpan ELSE NewSpan(name, attributes)

\* what httpClient.post does when invoked: it returns a promise that is
\* still pending, or it throws synchronously
PostBehaviours == { [kind |-> "pending"] } \cup { [kind |-> "threw", v |-> e] : e \in TransportErrors }

Completed_ResultThroughSpan(op, sp, evs, settled) ==
  LET try == IF op = "authorize"
             THEN TryBlock(settled, "idm-auth-client.authz.allowed", "allowed")
             ELSE TryBlock(settled, "idm-auth-client.auth.valid", "valid")
      caught == try.c = "throw"
      done == IF ~caught THEN try
              ELSE IF op = "authorize" THEN authorizeCatch(try.v)
              ELSE validateAuthenticationCatch(try.v)
  IN [pc |-> IF done.c = "return" THEN "resolved" ELSE "rejected",
      outcome |-> IF IsRecording(sp) \/ done.c = "throw" THEN done.v ELSE JsUndefined,
      span |-> IF IsRecording(sp)
               THEN [sp EXCEPT
                       !.attributes = IF caught THEN @ ELSE try.attrs @@ @,
                       !.exceptions = IF caught THEN Append(@, try.v) ELSE @,
                       !.ended = @ + 1]
               ELSE sp,
      events |-> evs \o (IF caught THEN <<"recordException">> ELSE <<"setAttributes">>)
                     \o <<"end">>]

Completed_EndOnlyOnSuccess(op, sp, evs, settled) ==
  LET try == IF op = "authorize"
             THEN TryBlock(settled, "idm-auth-client.authz.allowed", "allowed")
             ELSE TryBlock(settled, "idm-auth-client.auth.valid", "valid")
      caught == try.c = "throw"
      done == IF ~caught THEN try
              ELSE IF op = "authorize" THEN authorizeCatch(try.v)
              ELSE validateAuthenticationCatch(try.v)
  IN [pc |-> IF done.c = "return" THEN "resolved" ELSE "rejected",
      outcome |-> done.v,
      span |-> [sp EXCEPT
                  !.attributes = IF caught THEN @ ELSE try.attrs @@ @,
                  !.exceptions = IF caught THEN Append(@, try.v) ELSE @,
                  !.ended = IF caught THEN @ ELSE @ + 1],
      events |-> evs \o (IF caught THEN <<"recordException">>
                         ELSE <<"setAttributes", "end">>)]

Completed_ReusesDecision(op, sp, evs, settled) ==
  LET try == IF op = "authorize"
             THEN TryBlock(settled, "idm-auth-client.authz.allowed", "allowed")
             ELSE TryBlock(settled, "idm-auth-client.auth.valid", "valid")
      caught == try.c = "throw"
      earlier == { d \in DOMAIN pc : pc[d] = "resolved" /\ request[d].op = op }
      done == IF ~caught
              THEN IF op = "authorize" /\ earlier # {}
                   THEN [c |-> "return", v |-> outcome[CHOOSE d \in earlier : TRUE]]
                   ELSE try
              ELSE IF op = "authorize" THEN authorizeCatch(try.v)
              ELSE validateAuthenticationCatch(try.v)
  IN [pc |-> IF done.c = "return" THEN "resolved" ELSE "rejected",
      outcome |-> done.v,
      span |-> [sp EXCEPT
                  !.attributes = IF caught THEN @ ELSE try.attrs @@ @,
                  !.exceptions = IF caught THEN Append(@, try.v) ELSE @,
                  !.ended = @ + 1],
      events |-> evs \o (IF caught THEN <<"recordException">> ELSE <<"setAttributes">>)
                     \o <<"end">>]

\* the rest of the span callback of operation op once the post has settled
\* (or thrown):
\* try { ... } catch (error) { span.recordException(error); ... } finally { span.end() }
Completed(op, sp, evs, settled) ==
  LET try == IF op = "authorize"
             THEN TryBlock(settled, "idm-auth-client.authz.allowed", "allowed")
             ELSE TryBlock(settled, "idm-auth-client.auth.valid", "valid")
      caught == try.c = "throw"
      done == IF ~caught THEN try
              ELSE IF op = "authorize" THEN authorizeCatch(try.v)
              ELSE validateAuthenticationCatch(try.v)
  IN [pc |-> IF done.c = "return" THEN "resolved" ELSE "rejected",
      outcome |-> done.v,
      span |-> IF IsRecording(sp)
               THEN [sp EXCEPT
                       !.attributes = IF caught THEN @ ELSE try.attrs @@ @,
                       !.exceptions = IF caught THEN Append(@, try.v) ELSE @,
                       !.ended = @ + 1]
               ELSE sp,
      events |-> evs \o (IF caught THEN <<"recordException">> ELSE <<"setAttributes">>)
                     \o <<"end">>]

Becomes_EndsEverySpan(c, r) ==
  /\ pc' = [pc EXCEPT ![c] = r.pc]
  /\ outcome' = [outcome EXCEPT ![c] = r.outcome]
  /\ span' = [d \in DOMAIN span |->
                IF d = c THEN r.span
                ELSE IF IsRecording(span[d]) /\ IsRecording(r.span) /\ r.span.ended > 0
                     THEN [span[d] EXCEPT !.ended = r.span.ended]
                     ELSE span[d]]
  /\ events' = [events EXCEPT ![c] = r.events]

\* the state of call c becomes r
Becomes(c, r) ==
  /\ pc' = [pc EXCEPT ![c] = r.pc]
  /\ outcome' = [outcome EXCEPT ![c] = r.outcome]
  /\ span' = [span EXCEPT ![c] = r.span]
  /\ events' = [events EXCEPT ![c] = r.events]

Invoked_PostBeforeSpan(c, op, sp, post, b) ==
  LET evs == <<"post", "startActiveSpan", "setAttributes">> IN
  /\ posts' = [posts EXCEPT ![c] = Append(@, post)]
  /\ reply' = [reply EXCEPT ![c] = b]
  /\ IF b.kind = "pending"
     THEN Becomes(c, [pc |-> "awaiting", outcome |-> outcome[c], span |-> sp,
                      events |-> evs])
     ELSE Becomes(c, Completed(op, sp, evs, Rejected(b.v)))

\* the synchronous part of a call that reached httpClient.post: the span is
\* started, its attributes set, post invoked; the call then awaits the
\* promise, or handles what post threw
Invoked(c, op, sp, post, b) ==
  LET evs == <<"startActiveSpan", "setAttributes", "post">> IN
  /\ posts' = [posts EXCEPT ![c] = Append(@, post)]
  /\ reply' = [reply EXCEPT ![c] = b]
  /\ IF b.kind = "pending"
     THEN Becomes(c, [pc |-> "awaiting", outcome |-> outcome[c], span |-> sp,
                      events |-> evs])
     ELSE Becomes(c, Completed(op, sp, evs, Rejected(b.v)))

\* validateAuthentication(httpClient, idmAuthServiceUrl, request), up to the await
ValidateAuthentication(c) ==
  /\ pc[c] = "idle"
  /\ \E url \in ServiceUrls, req \in AuthenticationValidationRequests, b \in PostBehaviours :
       /\ request' = [request EXCEPT ![c] =
                        [op |-> "validateAuthentication", idmAuthServiceUrl |-> url,
                         request |-> req]]
       /\ Invoked(c, "validateAuthentication",
                  startActiveSpan(tracer[c], "idm-auth-client.validateAuthentication",
                                  validateAuthenticationAttributes(req)),
                  validateAuthenticationPost(url, req), b)
  /\ UNCHANGED <<orig, cur, ops, gets, tracer, fetchVars>>

Authorize_SpanBeforeNormalize(c) ==
  /\ pc[c] = "idle"
  /\ \E url \in ServiceUrls, req \in AuthorizationRequests :
       LET n == authorizeNormalize(req) IN
       /\ request' = [request EXCEPT ![c] =
                        [op |-> "authorize", idmAuthServiceUrl |-> url, request |-> req]]
       /\ IF n.t = "threw"
          THEN /\ pc' = [pc EXCEPT ![c] = "rejected"]
               /\ outcome' = [outcome EXCEPT ![c] = n.error]
               /\ span' = [span EXCEPT ![c] =
                             NewSpan("idm-auth-client.authorize",
                                     "idm-auth-client.operation" :> StrV("authorize"))]
               /\ events' = [events EXCEPT ![c] = <<"startActiveSpan">>]
               /\ UNCHANGED <<posts, reply>>
          ELSE \E b \in PostBehaviours :
                 Invoked(c, "authorize",
                         startActiveSpan(tracer[c], "idm-auth-client.authorize",
                                         authorizeAttributes(n.action, n.grn)),
                         authorizePost(url, req, n.action, n.grn), b)
  /\ UNCHANGED <<orig, cur, ops, gets, tracer, fetchVars>>

\* authorize(httpClient, idmAuthServiceUrl, request), up to the await; a
\* malformed text identifier throws before the span is started
Authorize(c) ==
  /\ pc[c] = "idle"
  /\ \E url \in ServiceUrls, req \in AuthorizationRequests :
       LET n == authorizeNormalize(req) IN
       /\ request' = [request EXCEPT ![c] =
                        [op |-> "authorize", idmAuthServiceUrl |-> url, request |-> req]]
       /\ IF n.t = "threw"
          THEN /\ pc' = [pc EXCEPT ![c] = "rejected"]
               /\ outcome' = [outcome EXCEPT ![c] = n.error]
               /\ UNCHANGED <<posts, reply, span, events>>
          ELSE \E b \in PostBehaviours :
                 Invoked(c, "authorize",
                         startActiveSpan(tracer[c], "idm-auth-client.authorize",
                                         authorizeAttributes(n.action, n.grn)),
                         authorizePost(url, req, n.action, n.grn), b)
  /\ UNCHANGED <<orig, cur, ops, gets, tracer, fetchVars>>

\* the promise returned by post is fulfilled with r
TransportResolves(c) ==
  /\ pc[c] = "awaiting"
  /\ \E r \in IF request[c].op = "authorize" THEN AuthorizationResponses
                                               ELSE AuthenticationResponses :
       LET settled == Fulfilled(r) IN
       /\ reply' = [reply EXCEPT ![c] = settled]
       /\ Becomes(c, Completed(request[c].op, span[c], events[c], settled))
  /\ UNCHANGED <<orig, cur, ops, request, posts, gets, tracer, fetchVars>>

TransportRejects_CoreTimeout(c) ==
  /\ pc[c] = "awaiting"
  /\ \/ \E e \in RejectionValues :
          LET settled == Rejected(e) IN
          /\ reply' = [reply EXCEPT ![c] = settled]
          /\ Becomes(c, Completed(request[c].op, span[c], events[c], settled))
     \/ /\ Becomes(c, Completed(request[c].op, span[c], events[c],
                                Rejected(JsError("Error", "Request timeout"))))
        /\ UNCHANGED reply
  /\ UNCHANGED <<orig, cur, ops, request, posts, gets, tracer, fetchVars>>

TransportRejects_Retries(c) ==
  /\ pc[c] = "awaiting"
  /\ \E e \in RejectionValues :
       LET settled == Rejected(e) IN
       IF Len(posts[c]) < 2
       THEN /\ posts' = [posts EXCEPT ![c] = Append(@, @[1])]
            /\ events' = [events EXCEPT ![c] = Append(@, "post")]
            /\ UNCHANGED <<reply, pc, outcome, span>>
       ELSE /\ reply' = [reply EXCEPT ![c] = settled]
            /\ Becomes(c, Completed(request[c].op, span[c], events[c], settled))
            /\ UNCHANGED posts
  /\ UNCHANGED <<orig, cur, ops, request, gets, tracer, fetchVars>>

\* the promise returned by post is rejected with e
TransportRejects(c) ==
  /\ pc[c] = "awaiting"
  /\ \E e \in RejectionValues :
       LET settled == Rejected(e) IN
       /\ reply' = [reply EXCEPT ![c] = settled]
       /\ Becomes(c, Completed(request[c].op, span[c], events[c], settled))
  /\ UNCHANGED <<orig, cur, ops, request, posts, gets, tracer, fetchVars>>

\* call 1 runs after a tracer provider was registered, call 2 without one, ...
MixedTracers ==
  tracer = [c \in 1..NumCalls |-> IF c % 2 = 1 THEN "recording" ELSE "noop"]

TracersInit ==
  /\ orig = NoValue
  /\ cur = NoValue
  /\ ops = << >>
  /\ ProtoInit
  /\ MixedTracers
  /\ FetchIdle

Init ==
  /\ orig = NoValue
  /\ cur = NoValue
  /\ ops = << >>
  /\ ProtoInit
  /\ RecordingTracer
  /\ FetchIdle

Next ==
  \/ \E c \in Calls : ValidateAuthentication(c)
  \/ \E c \in Calls : Authorize(c)
  \/ \E c \in Calls : TransportResolves(c)
  \/ \E c \in Calls : TransportRejects(c)

Spec == Init /\ [][Next]_vars

\* the transport does not leave the promises it returned pending for ever
TransportSettles ==
  WF_vars(\E c \in 1..NumCalls : TransportResolves(c) \/ TransportRejects(c))

SpecLive == Init /\ [][Next]_vars /\ TransportSettles

\* the same calls, some with a recording tracer and some with a no-op tracer
SpecTracers == TracersInit /\ [][Next]_vars

(***************************************************************************)
(* examples/FetchHttpClient.ts                                             *)
(***************************************************************************)
FetchCalls == 1..NumCalls
Methods == { "POST", "GET" }

\* what the server and the network may do
HttpStatuses == { "200", "404" }
Ok(st) == st = "200"                       \* response.ok: status in 200..299
ParsedBodies == { [t |-> "object", valid |-> BoolV(TRUE)] }
NetworkErrors == { JsError("TypeError", "fetch failed") }
AbortError == JsError("AbortError", "This operation was aborted")
SyntaxError == JsError("SyntaxError", "Unexpected end of JSON input")

HttpError(st) == JsError("Error", "HTTP error! status: " \o st)
TimeoutError == JsError("Error", "Request timeout")

\* clearTimeout(timeoutId): disarms a timer that has not fired
clearTimeout(t) == IF t = "armed" THEN "cleared" ELSE t

\* catch (error) { if (error.name === 'AbortError') throw new Error('Request timeout'); throw error; }
fetchCatch(error) ==
  IF ~CanRead(error) THEN TypeErrorReading("name")
  ELSE IF Prop(error, "name") = StrV("AbortError") THEN TimeoutError
  ELSE error

Leaves_ClearsOnSuccessOnly(k, p, v) ==
  /\ fpc' = [fpc EXCEPT ![k] = p]
  /\ fout' = [fout EXCEPT ![k] = v]
  /\ timer' = [timer EXCEPT ![k] = IF p = "rejected" THEN @ ELSE clearTimeout(@)]

\* call k leaves the try statement with pc p and value v; finally clears the timer
Leaves(k, p, v) ==
  /\ fpc' = [fpc EXCEPT ![k] = p]
  /\ fout' = [fout EXCEPT ![k] = v]
  /\ timer' = [timer EXCEPT ![k] = clearTimeout(@)]

\* post / get up to the await: the controller is created, the abort timer
\* armed and fetch called
Started(k, m) ==
  /\ fpc[k] = "idle"
  /\ method' = [method EXCEPT ![k] = m]
  /\ fpc' = [fpc EXCEPT ![k] = "fetching"]
  /\ timer' = [timer EXCEPT ![k] = "armed"]
  /\ UNCHANGED <<status, elapsed, fout>>
  /\ UNCHANGED <<codecVars, protoVars, tracer>>

FetchPost(k) == Started(k, "POST")
FetchGet(k) == Started(k, "GET")

\* fetch resolves with the response headers: a status that is not ok throws
\* inside the try; otherwise the promise of response.json() is returned, not
\* awaited, and the finally block runs at once
FetchResponds(k) ==
  /\ fpc[k] = "fetching"
  /\ \E st \in HttpStatuses :
       /\ status' = [status EXCEPT ![k] = st]
       /\ IF Ok(st) THEN Leaves(k, "reading", fout[k])
          ELSE Leaves(k, "rejected", fetchCatch(HttpError(st)))
  /\ UNCHANGED <<method, elapsed>>
  /\ UNCHANGED <<codecVars, protoVars, tracer>>

\* fetch rejects with a network error
FetchFails(k) ==
  /\ fpc[k] = "fetching"
  /\ \E e \in NetworkErrors : Leaves(k, "rejected", fetchCatch(e))
  /\ UNCHANGED <<method, status, elapsed>>
  /\ UNCHANGED <<codecVars, protoVars, tracer>>

\* the configured timeout passes before the call has settled: an armed timer
\* fires, controller.abort() makes fetch reject with an AbortError; a cleared
\* timer does nothing
TimeoutElapses(k) ==
  /\ fpc[k] \in {"fetching", "reading"}
  /\ ~elapsed[k]
  /\ elapsed' = [elapsed EXCEPT ![k] = TRUE]
  /\ IF timer[k] = "armed"
     THEN /\ fpc' = [fpc EXCEPT ![k] = "rejected"]
          /\ fout' = [fout EXCEPT ![k] = fetchCatch(AbortError)]
          /\ timer' = [timer EXCEPT ![k] = clearTimeout("fired")]
     ELSE UNCHANGED <<fpc, fout, timer>>
  /\ UNCHANGED <<method, status>>
  /\ UNCHANGED <<codecVars, protoVars, tracer>>

\* the promise of response.json() is fulfilled with the parsed body
BodyParsed(k) ==
  /\ fpc[k] = "reading"
  /\ \E v \in ParsedBodies :
       /\ fpc' = [fpc EXCEPT ![k] = "resolved"]
       /\ fout' = [fout EXCEPT ![k] = v]
  /\ UNCHANGED <<method, status, timer, elapsed>>
  /\ UNCHANGED <<codecVars, protoVars, tracer>>

\* the promise of response.json() is rejected: the body is not JSON
BodyMalformed(k) ==
  /\ fpc[k] = "reading"
  /\ fpc' = [fpc EXCEPT ![k] = "rejected"]
  /\ fout' = [fout EXCEPT ![k] = SyntaxError]
  /\ UNCHANGED <<method, status, timer, elapsed>>
  /\ UNCHANGED <<codecVars, protoVars, tracer>>

FetchNext ==
  \/ \E k \in FetchCalls : FetchPost(k)
  \/ \E k \in FetchCalls : FetchGet(k)
  \/ \E k \in FetchCalls : FetchResponds(k)
  \/ \E k \in FetchCalls : FetchFails(k)
  \/ \E k \in FetchCalls : TimeoutElapses(k)
  \/ \E k \in FetchCalls : BodyParsed(k)
  \/ \E k \in FetchCalls : BodyMalformed(k)

SpecFetch == Init /\ [][FetchNext]_vars

(***************************************************************************)
(* Protocol properties                                                     *)
(***************************************************************************)
IsAuthentication(c) == pc[c] # "idle" /\ request[c].op = "validateAuthentication"
IsAuthorization(c) == pc[c] # "idle" /\ request[c].op = "authorize"
\* the transport's post failed: its promise was rejected, or it threw
TransportFailed(c) == reply[c] # NoValue /\ reply[c].kind \in {"rejected", "threw"}

\* C1: whenever the transport's post fails with an error carrying message m,
\* validateAuthentication resolves, and its result is {valid: false, error: m}.
C1_AuthenticationFailureIsNegativeResult ==
  \A c \in Calls :
    (IsAuthentication(c) /\ TransportFailed(c) /\ reply[c].v.t = "error")
      => /\ pc[c] = "resolved"
         /\ outcome[c] = [t |-> "object", valid |-> BoolV(FALSE),
                          error |-> reply[c].v.message]

\* the promise of a validateAuthentication call was rejected with
\* Error('Network error') and the call resolved
C1_Witness ==
  \E c \in Calls :
    /\ IsAuthentication(c)
    /\ reply[c] = Rejected(JsError("Error", "Network error"))
    /\ pc[c] = "resolved"
    /\ outcome[c].error = StrV("Network error")

\* C2: whenever the transport's post fails with error e, authorize rejects
\* with that same e and never resolves.
C2_AuthorizationFailurePropagates ==
  \A c \in Calls :
    (IsAuthorization(c) /\ TransportFailed(c))
      => pc[c] = "rejected" /\ outcome[c] = reply[c].v

\* the promise of an authorize call was rejected with an Error and the call
\* rejected with it
C2_Witness ==
  \E c \in Calls :
    /\ IsAuthorization(c)
    /\ reply[c] = Rejected(JsError("Error", "Network error"))
    /\ pc[c] = "rejected"
    /\ outcome[c] = JsError("Error", "Network error")

MalformedGrnInput(req) == req.grn.t = "text" /\ ~WellFormedGrnText(req.grn.s)
MalformedActionInput(req) == req.action.t = "text" /\ ~WellFormedActionText(req.action.s)

\* C3: if request.action or request.grn is text that fails validation,
\* authorize rejects with the format error of the first malformed identifier
\* (grn before action), nothing inside authorize catches or records it, and
\* the transport records no post invocation for the call.
C3_FormatErrorBeforeTransport ==
  \A c \in Calls :
    (IsAuthorization(c)
       /\ (MalformedGrnInput(request[c].request) \/ MalformedActionInput(request[c].request)))
      => /\ pc[c] = "rejected"
         /\ outcome[c] = JsError("Error", IF MalformedGrnInput(request[c].request)
                                          THEN InvalidGrnMessage
                                          ELSE InvalidActionMessage)
         /\ posts[c] = << >>
         /\ reply[c] = NoValue
         /\ ~("recordException" \in { events[c][i] : i \in 1..Len(events[c]) })

\* an authorize call with a well-formed grn and a malformed action text
\* rejected without a post invocation
C3_Witness ==
  \E c \in Calls :
    /\ IsAuthorization(c)
    /\ request[c].request.action = TextV(MalformedActionText)
    /\ request[c].request.grn = TextV(ValidGrnText)
    /\ pc[c] = "rejected"
    /\ posts[c] = << >>

\* C4: validateAuthentication never rejects, whatever the transport does.
C4_AuthenticationNeverRejects ==
  \A c \in Calls : IsAuthentication(c) => pc[c] # "rejected"

\* the text of a structured identifier, field by field
ActionTextOf(a) == Join(<<a.system, a.resource, a.operation>>)
GrnTextOf(g) ==
  LET opt(x) == IF x = Undefined THEN EmptyText ELSE x
  IN Join(<<GrnPrefix, opt(g.partition), g.system, opt(g.region),
            opt(g.tenantId), g.resource>>)
ExpectedActionText(req) ==
  IF req.action.t = "text" THEN req.action.s ELSE ActionTextOf(req.action.a)
ExpectedGrnText(req) ==
  IF req.grn.t = "text" THEN req.grn.s ELSE GrnTextOf(req.grn.g)

ActionDenotes(s, v) ==
  /\ WellFormedActionText(s)
  /\ v = [system |-> FieldAt(s, 0), resource |-> FieldAt(s, 1),
          operation |-> FieldAt(s, 2)]
GrnDenotes(s, v) ==
  LET opt(x) == IF x = EmptyText THEN Undefined ELSE x IN
  /\ WellFormedGrnText(s)
  /\ v = [partition |-> opt(FieldAt(s, 1)), system |-> FieldAt(s, 2),
          region |-> opt(FieldAt(s, 3)), tenantId |-> opt(FieldAt(s, 4)),
          resource |-> FieldAt(s, 5)]
\* call d is call c with each identifier in the other representation
SameRequestStructured(c, d) ==
  LET rc == request[c].request
      rd == request[d].request
  IN /\ request[c].idmAuthServiceUrl = request[d].idmAuthServiceUrl
     /\ rc.applicationRealmPublicUUID = rd.applicationRealmPublicUUID
     /\ rc.idmAuthUserToken = rd.idmAuthUserToken
     /\ rc.action.t = "text" /\ rd.action.t = "action"
     /\ ActionDenotes(rc.action.s, rd.action.a)
     /\ rc.grn.t = "text" /\ rd.grn.t = "grn"
     /\ GrnDenotes(rc.grn.s, rd.grn.g)

\* C6: a call given well-formed texts (a, g) and a call given the structured
\* values those texts denote pass identical url, payload and headers to post.
C6_RepresentationIndependent ==
  \A c, d \in Calls :
    (IsAuthorization(c) /\ IsAuthorization(d) /\ SameRequestStructured(c, d))
      => /\ Len(posts[c]) = 1
         /\ posts[d] = posts[c]

\* two calls, one with texts and one with the structured values they denote,
\* have both invoked post
C6_Witness ==
  \E c, d \in Calls :
    /\ IsAuthorization(c) /\ IsAuthorization(d)
    /\ SameRequestStructured(c, d)
    /\ Len(posts[c]) = 1 /\ Len(posts[d]) = 1

(***************************************************************************)
(* Codec properties, continued                                             *)
(***************************************************************************)
WildcardActionText == Join(<< <<"*">>, <<"*">>, <<"*">> >>)

\* C11: isValidAction(s) returns true exactly when s has 3 fields that are
\* all non-empty; '*' is an ordinary field value, so '*:*:*' is valid, and
\* texts such as 'a:b' and 'a::c' are invalid.
C11_IsValidAction ==
  (orig.t = "text" /\ ops = <<"isValidAction">>)
    => /\ cur = BoolV(WellFormedActionText(orig.s))
       /\ orig.s = WildcardActionText => cur = BoolV(TRUE)
       /\ orig.s \in { Join(<< <<"a">>, <<"*">> >>),
                       Join(<< <<"a">>, EmptyText, <<"*">> >>) } => cur = BoolV(FALSE)

\* isValidAction accepted the all-wildcard action '*:*:*'
C11_Witness ==
  /\ ops = <<"isValidAction">>
  /\ orig = TextV(WildcardActionText)
  /\ cur = BoolV(TRUE)

\* C12: parseGrn(s) throws its format error exactly when isValidGrn(s) is
\* false, and parseAction(s) throws its format error exactly when
\* isValidAction(s) is false; otherwise they return a structured value.
C12_ParseFailsIffInvalid ==
  /\ (orig.t = "text" /\ ops = <<"parseGrn">>)
       => /\ (cur.t = "threw") <=> ~isValidGrn(orig.s)
          /\ cur.t = "threw" => cur = Threw(InvalidGrnMessage)
          /\ cur.t # "threw" => cur.t = "grn"
  /\ (orig.t = "text" /\ ops = <<"parseAction">>)
       => /\ (cur.t = "threw") <=> ~isValidAction(orig.s)
          /\ cur.t = "threw" => cur = Threw(InvalidActionMessage)
          /\ cur.t # "threw" => cur.t = "action"

\* parseAction threw on the three-field text 'a::a' whose middle field is empty
C12_Witness ==
  /\ ops = <<"parseAction">>
  /\ orig = TextV(Join(<< <<"a">>, EmptyText, <<"a">> >>))
  /\ cur = Threw(InvalidActionMessage)

\* C13: on success parseGrn assigns fields by position (partition = field 1,
\* system = field 2, region = field 3, tenantId = field 4, resource = field 5)
\* and turns every empty optional field into an absent value, never ''.
C13_ParseGrnByPosition ==
  (orig.t = "text" /\ ops = <<"parseGrn">> /\ cur.t = "grn")
    => /\ GrnDenotes(orig.s, cur.g)
       /\ \A x \in {cur.g.partition, cur.g.region, cur.g.tenantId} : x # EmptyText

\* parseGrn read 'grn:a:*::grn:a': region absent, the other fields by position
C13_Witness ==
  /\ ops = <<"parseGrn">>
  /\ orig = TextV(Join(<<GrnPrefix, <<"a">>, <<"*">>, EmptyText, GrnPrefix, <<"a">> >>))
  /\ cur = GrnV([partition |-> <<"a">>, system |-> <<"*">>, region |-> Undefined,
                 tenantId |-> GrnPrefix, resource |-> <<"a">>])

GrnFields(g) == {g.partition, g.system, g.region, g.tenantId, g.resource}
ActionFields(a) == {a.system, a.resource, a.operation}
\* an optional field as the text carries it
Segment(x) == IF x = Undefined THEN EmptyText ELSE x

\* C14 as stated: stringifyGrn always produces a text of exactly 6 fields
\* and stringifyAction a text of exactly 3 fields.
C14_Original ==
  /\ (orig.t = "grn" /\ ops = <<"stringifyGrn">>)
       => cur.t = "text" /\ FieldCount(cur.s) = 6
  /\ (orig.t = "action" /\ ops = <<"stringifyAction">>)
       => cur.t = "text" /\ FieldCount(cur.s) = 3

\* C14 amended: stringifyGrn and stringifyAction are total; for a value none
\* of whose fields contains ':' stringifyGrn produces a text of exactly 6
\* fields, absent optional fields emitted as empty segments, and
\* stringifyAction a text of exactly 3 fields.
C14_StringifyFieldCount ==
  /\ (orig.t = "grn" /\ ops = <<"stringifyGrn">>) => cur.t = "text"
  /\ (orig.t = "action" /\ ops = <<"stringifyAction">>) => cur.t = "text"
  /\ (orig.t = "grn" /\ ops = <<"stringifyGrn">>
        /\ \A x \in GrnFields(orig.g) : ~HasColon(x))
       => /\ FieldCount(cur.s) = 6
          /\ FieldAt(cur.s, 0) = GrnPrefix
          /\ FieldAt(cur.s, 1) = Segment(orig.g.partition)
          /\ FieldAt(cur.s, 2) = orig.g.system
          /\ FieldAt(cur.s, 3) = Segment(orig.g.region)
          /\ FieldAt(cur.s, 4) = Segment(orig.g.tenantId)
          /\ FieldAt(cur.s, 5) = orig.g.resource
  /\ (orig.t = "action" /\ ops = <<"stringifyAction">>
        /\ \A x \in ActionFields(orig.a) : ~HasColon(x))
       => FieldCount(cur.s) = 3

\* stringifyGrn serialized a value whose three optional fields are absent
\* into the six-field text 'grn::a:::*'
C14_Witness ==
  /\ ops = <<"stringifyGrn">>
  /\ orig = GrnV([partition |-> Undefined, system |-> <<"a">>, region |-> Undefined,
                  tenantId |-> Undefined, resource |-> <<"*">>])
  /\ cur = TextV(Join(<<GrnPrefix, EmptyText, <<"a">>, EmptyText, EmptyText, <<"*">> >>))

(***************************************************************************)
(* Protocol properties, continued                                          *)
(***************************************************************************)
TransportFulfilled(c) == reply[c] # NoValue /\ reply[c].kind = "fulfilled"

\* C15 as stated: for every value r that the transport's post resolves with,
\* validateAuthentication resolves with r itself, unchanged.
C15_Original ==
  \A c \in Calls :
    (IsAuthentication(c) /\ TransportFulfilled(c))
      => pc[c] = "resolved" /\ outcome[c] = reply[c].v

\* C15 amended: for every value r other than an absent body (undefined or
\* null) that the transport's post resolves with, validateAuthentication
\* resolves with r itself, unchanged; no field is added, dropped or rewritten,
\* whether or not r carries valid, accountId or error.
C15_AuthenticationResponseUnchanged ==
  \A c \in Calls :
    (IsAuthentication(c) /\ TransportFulfilled(c) /\ CanRead(reply[c].v))
      => pc[c] = "resolved" /\ outcome[c] = reply[c].v

\* a validateAuthentication call whose post resolved with
\* {valid: true, accountId: 'acc-1'} resolved with that object
C15_Witness ==
  \E c \in Calls :
    /\ IsAuthentication(c)
    /\ reply[c] = Fulfilled([t |-> "object", valid |-> BoolV(TRUE),
                             accountId |-> StrV("acc-1")])
    /\ pc[c] = "resolved"
    /\ outcome[c] = reply[c].v

\* C16: authorize resolves only with the value its own transport call
\* resolved with, unchanged, after exactly one post of its own; a decision of
\* another call with the same request is never reused.
C16_AuthorizationDecisionIsOwnReply ==
  \A c \in Calls :
    (IsAuthorization(c) /\ pc[c] = "resolved")
      => /\ TransportFulfilled(c)
         /\ outcome[c] = reply[c].v
         /\ Len(posts[c]) = 1

\* two authorize calls with the same request got different decisions from
\* the transport and each resolved with its own
C16_Witness ==
  \E c, d \in Calls :
    /\ IsAuthorization(c) /\ IsAuthorization(d)
    /\ request[c] = request[d]
    /\ pc[c] = "resolved" /\ pc[d] = "resolved"
    /\ outcome[c].allowed = BoolV(TRUE) /\ outcome[d].allowed = BoolV(FALSE)
    /\ Len(posts[c]) = 1 /\ Len(posts[d]) = 1

Settled(c) == pc[c] \in {"resolved", "rejected"}
\* how many times event e occurs in the sequence evs
Count(evs, e) == Cardinality({ i \in 1..Len(evs) : evs[i] = e })
\* the call's span callback ran: a span was started for it
SpanStarted(c) == span[c] # NoValue

\* C18: in both operations every span that is started is ended exactly once
\* on every exit path (transport success, failure converted to a result,
\* failure re-thrown), and not before the call settles.
C18_SpanEndedExactlyOnce ==
  \A c \in Calls :
    /\ SpanStarted(c)
         => /\ Count(events[c], "startActiveSpan") = 1
            /\ span[c].ended = Count(events[c], "end")
            /\ span[c].ended = IF Settled(c) THEN 1 ELSE 0
    /\ ~SpanStarted(c) => events[c] = << >>
    /\ (pc[c] # "idle" /\ Len(posts[c]) > 0) => SpanStarted(c)

\* a validateAuthentication call whose failure was converted to a result and
\* an authorize call whose failure was re-thrown have both ended their span
C18_Witness ==
  \E c, d \in Calls :
    /\ IsAuthentication(c) /\ TransportFailed(c) /\ pc[c] = "resolved"
    /\ IsAuthorization(d) /\ TransportFailed(d) /\ pc[d] = "rejected"
    /\ span[c].ended = 1 /\ span[d].ended = 1

FlagAttribute(c) ==
  IF request[c].op = "authorize" THEN "idm-auth-client.authz.allowed"
  ELSE "idm-auth-client.auth.valid"
Flag(c) == IF request[c].op = "authorize" THEN "allowed" ELSE "valid"
RequestAttributes(c) ==
  IF request[c].op = "authorize"
  THEN {"idm-auth-client.operation", "idm-auth-client.action.system",
        "idm-auth-client.action.resource", "idm-auth-client.action.operation",
        "idm-auth-client.grn.system", "idm-auth-client.grn.resource"}
  ELSE {"idm-auth-client.operation", "idm-auth-client.system",
        "idm-auth-client.realm_id"}

\* C19: in both operations the span is started and its request attributes
\* are set before post is invoked; the span is ended only after the
\* transport call has settled; on success the valid/allowed attribute, and
\* on failure the exception, is recorded on the span before it is ended.
C19_SpanBracketsTransportCall ==
  \A c \in Calls :
    SpanStarted(c)
      => /\ SubSeq(events[c], 1, 3) = <<"startActiveSpan", "setAttributes", "post">>
         /\ RequestAttributes(c) \subseteq DOMAIN span[c].attributes
         /\ pc[c] = "awaiting"
              => events[c] = <<"startActiveSpan", "setAttributes", "post">>
         /\ Count(events[c], "end") > 0
              => /\ reply[c].kind \in {"fulfilled", "rejected", "threw"}
                 /\ Len(events[c]) = 5
                 /\ events[c][5] = "end"
                 /\ events[c][4] \in {"setAttributes", "recordException"}
         /\ (Settled(c) /\ TransportFulfilled(c) /\ CanRead(reply[c].v))
              => /\ events[c][4] = "setAttributes"
                 /\ FlagAttribute(c) \in DOMAIN span[c].attributes
                 /\ span[c].attributes[FlagAttribute(c)] = Prop(reply[c].v, Flag(c))
         /\ (Settled(c) /\ TransportFailed(c))
              => /\ events[c][4] = "recordException"
                 /\ span[c].exceptions = <<reply[c].v>>

\* an authorize call that was allowed has the allowed attribute on its ended
\* span, and a validateAuthentication call is still awaiting with its span open
C19_Witness ==
  \E c, d \in Calls :
    /\ IsAuthorization(c) /\ pc[c] = "resolved"
    /\ span[c].attributes["idm-auth-client.authz.allowed"] = BoolV(TRUE)
    /\ events[c] = <<"startActiveSpan", "setAttributes", "post", "setAttributes", "end">>
    /\ IsAuthentication(d) /\ pc[d] = "awaiting" /\ span[d].ended = 0

\* the call got as far as the transport
ReachedTransport(c) ==
  \/ IsAuthentication(c)
  \/ /\ IsAuthorization(c)
     /\ ~MalformedGrnInput(request[c].request)
     /\ ~MalformedActionInput(request[c].request)

\* C20: each call of validateAuthentication, and each call of authorize that
\* passes identifier normalization, invokes post exactly once and get never,
\* whether the transport call is pending, succeeded or failed.
C20_OnePostNoGet ==
  \A c \in Calls :
    /\ gets[c] = 0
    /\ ReachedTransport(c)
         => /\ Len(posts[c]) = 1
            /\ Count(events[c], "post") = 1

\* a validateAuthentication call and an authorize call have both failed at
\* the transport after a single post each
C20_Witness ==
  \E c, d \in Calls :
    /\ IsAuthentication(c) /\ TransportFailed(c) /\ Settled(c)
    /\ IsAuthorization(d) /\ TransportFailed(d) /\ Settled(d)
    /\ Len(posts[c]) = 1 /\ Len(posts[d]) = 1
    /\ gets[c] = 0 /\ gets[d] = 0

\* everything the model keeps about call c
OwnState(c) == <<pc[c], request[c], reply[c], outcome[c], posts[c], span[c], events[c]>>

\* calls that were given the same request and whose transport did the same
\* have the same outcome, span and trace, whatever else was in flight
SameInSameOut ==
  \A c, d \in Calls :
    (Settled(c) /\ Settled(d) /\ request[c] = request[d] /\ reply[c] = reply[d])
      => /\ pc[c] = pc[d]
         /\ outcome[c] = outcome[d]
         /\ span[c] = span[d]
         /\ events[c] = events[d]

\* a step of one call leaves every other call as it was
OneCallPerStep ==
  \A c, d \in Calls :
    (c # d /\ OwnState(c)' # OwnState(c)) => OwnState(d)' = OwnState(d)

\* C21: with several validateAuthentication and authorize calls in flight on
\* one transport and replies arriving in any order, each call's outcome is
\* determined by its own request and its own reply only, and a call's step
\* ends no span but its own.
C21_CallsIndependent == [](SameInSameOut) /\ [][OneCallPerStep]_vars

\* one call has settled on its reply and ended its span while a call of the
\* other operation is still in flight with its span open
C21_Witness ==
  \E c, d \in Calls :
    /\ pc[c] = "awaiting" /\ span[c].ended = 0
    /\ Settled(d) /\ TransportFulfilled(d)
    /\ span[d].ended = 1
    /\ request[c].op # request[d].op

\* C22: for the same request and the same transport behaviour, a call made
\* with a no-op tracer makes the same transport call and has the same outcome
\* (pending, resolved value or rejection) as a call made with a recording
\* tracer.
C22_NoopTracerSameBehaviour ==
  \A c, d \in Calls :
    (/\ tracer[c] = "recording" /\ tracer[d] = "noop"
     /\ request[c] = request[d] /\ reply[c] = reply[d])
      => /\ posts[c] = posts[d]
         /\ gets[c] = gets[d]
         /\ pc[c] = pc[d]
         /\ outcome[c] = outcome[d]
         /\ events[c] = events[d]

\* a validateAuthentication call with a recording tracer and one with a
\* no-op tracer got the same request and the same positive reply: one span
\* holds the attributes and is ended, the other recorded nothing
C22_Witness ==
  \E c, d \in Calls :
    /\ tracer[c] = "recording" /\ tracer[d] = "noop"
    /\ IsAuthentication(c) /\ IsAuthentication(d)
    /\ request[c] = request[d] /\ reply[c] = reply[d]
    /\ TransportFulfilled(c) /\ CanRead(reply[c].v)
    /\ Prop(outcome[d], "valid") = BoolV(TRUE)
    /\ span[c].ended = 1 /\ span[d] = NonRecordingSpan

FormatErrors == { JsError("Error", InvalidGrnMessage), JsError("Error", InvalidActionMessage) }

\* C23: authorize does not validate structured identifiers: a structured
\* action never gives the action format error and a structured grn never the
\* grn format error, and a call given both structured, whatever their fields
\* hold (an empty system or resource included), goes on to invoke post.
C23_StructuredPassThrough ==
  \A c \in Calls :
    IsAuthorization(c)
      => LET req == request[c].request IN
         /\ req.action.t = "action" => outcome[c] # JsError("Error", InvalidActionMessage)
         /\ req.grn.t = "grn" => outcome[c] # JsError("Error", InvalidGrnMessage)
         /\ (req.action.t = "action" /\ req.grn.t = "grn")
              => /\ Len(posts[c]) = 1
                 /\ SpanStarted(c)
                 /\ outcome[c] \notin FormatErrors

\* a call given an action with an empty system and a grn with an empty
\* resource was posted and allowed
C23_Witness ==
  \E c \in Calls :
    /\ IsAuthorization(c)
    /\ request[c].request.action = EmptySystemAction
    /\ request[c].request.grn = EmptyResourceGrn
    /\ Len(posts[c]) = 1
    /\ pc[c] = "resolved" /\ Prop(outcome[c], "allowed") = BoolV(TRUE)

\* the structured identifier is one a text denotes
CanonicalActionInput(req) == req.action.t = "action" /\ CanonicalAction(req.action.a)
CanonicalGrnInput(req) == req.grn.t = "grn" /\ CanonicalGrn(req.grn.g)

\* C25 as stated: every payload handed to post carries an action that
\* satisfies isValidAction and a grn that satisfies isValidGrn, for text and
\* for structured inputs alike.
C25_Original ==
  \A c \in Calls :
    \A i \in 1..Len(posts[c]) :
      IsAuthorization(c)
        => /\ isValidAction(posts[c][i].data.action)
           /\ isValidGrn(posts[c][i].data.grn)

\* C25: every payload handed to post carries an action that satisfies
\* isValidAction when the input action was text or a canonical structured
\* value, and a grn that satisfies isValidGrn when the input grn was text or
\* a canonical structured value.
C25_PayloadWellFormed ==
  \A c \in Calls :
    \A i \in 1..Len(posts[c]) :
      IsAuthorization(c)
        => LET req == request[c].request IN
           /\ (req.action.t = "text" \/ CanonicalActionInput(req))
                => isValidAction(posts[c][i].data.action)
           /\ (req.grn.t = "text" \/ CanonicalGrnInput(req))
                => isValidGrn(posts[c][i].data.grn)

\* a call given texts and a call given canonical structured values were
\* both posted
C25_Witness ==
  \E c, d \in Calls :
    /\ IsAuthorization(c) /\ IsAuthorization(d)
    /\ request[c].request.action.t = "text" /\ request[c].request.grn.t = "text"
    /\ CanonicalActionInput(request[d].request) /\ CanonicalGrnInput(request[d].request)
    /\ Len(posts[c]) = 1 /\ Len(posts[d]) = 1

\* the value carries field f
Has(v, f) == f \in DOMAIN v

\* C24: validateAuthentication resolves with valid = true only if its post
\* was fulfilled with a response whose valid field is true; after a transport
\* failure the call's result, in every interleaving, has neither valid = true
\* nor an accountId.
C24_FailClosed ==
  \A c \in Calls :
    IsAuthentication(c)
      => /\ (pc[c] = "resolved" /\ Prop(outcome[c], "valid") = BoolV(TRUE))
              => /\ TransportFulfilled(c)
                 /\ CanRead(reply[c].v)
                 /\ Prop(reply[c].v, "valid") = BoolV(TRUE)
         /\ (TransportFailed(c) /\ Settled(c))
              => /\ Prop(outcome[c], "valid") # BoolV(TRUE)
                 /\ ~Has(outcome[c], "accountId")
         /\ (TransportFulfilled(c) /\ ~CanRead(reply[c].v))
              => /\ Prop(outcome[c], "valid") = BoolV(FALSE)
                 /\ ~Has(outcome[c], "accountId")

\* one call resolved with valid = true on a positive reply while another,
\* whose transport failed, resolved with valid = false
C24_Witness ==
  \E c, d \in Calls :
    /\ IsAuthentication(c) /\ pc[c] = "resolved"
    /\ Prop(outcome[c], "valid") = BoolV(TRUE) /\ Has(outcome[c], "accountId")
    /\ IsAuthentication(d) /\ TransportFailed(d) /\ pc[d] = "resolved"
    /\ Prop(outcome[d], "valid") = BoolV(FALSE)

\* occurrences of event e over all calls
Total(e) ==
  Cardinality({ p \in Calls \X (1..5) : p[2] <= Len(events[p[1]]) /\ events[p[1]][p[2]] = e })
FormatErrorCall(c) ==
  IsAuthorization(c) /\ pc[c] = "rejected" /\ reply[c] = NoValue /\ outcome[c] \in FormatErrors

\* C26: a call of authorize that fails with a FormatError has started no
\* span, set no attribute and recorded no exception, because normalization
\* runs before the span is begun; once all calls have settled, as many spans
\* have been ended as were started.
C26_NoSpanOnFormatError ==
  /\ \A c \in Calls :
       FormatErrorCall(c)
         => /\ ~SpanStarted(c)
            /\ events[c] = << >>
            /\ posts[c] = << >>
  /\ (\A c \in Calls : Settled(c))
       => /\ Total("startActiveSpan") = Total("end")
          /\ Cardinality({ c \in Calls : SpanStarted(c) })
               = Cardinality({ c \in Calls : SpanStarted(c) /\ span[c].ended = 1 })

\* all calls have settled: one failed with a FormatError and has no span,
\* another started a span and ended it
C26_Witness ==
  /\ \A c \in Calls : Settled(c)
  /\ \E c, d \in Calls :
       /\ FormatErrorCall(c) /\ span[c] = NoValue
       /\ IsAuthorization(d) /\ SpanStarted(d) /\ span[d].ended = 1
  /\ Total("startActiveSpan") = NumCalls - 1

\* the operation applied last
LastOp == IF ops = << >> THEN "none" ELSE ops[Len(ops)]

\* C27: every value parseGrn returns has a non-empty system and resource,
\* optional fields that are absent or non-empty, and no field containing
\* ':'; every value parseAction returns has three non-empty fields, none
\* containing ':'.
C27_ParsedValuesCanonical ==
  /\ (LastOp = "parseGrn" /\ cur.t = "grn")
       => /\ cur.g.system # EmptyText /\ cur.g.system # Undefined
          /\ cur.g.resource # EmptyText /\ cur.g.resource # Undefined
          /\ \A f \in {"partition", "region", "tenantId"} : cur.g[f] # EmptyText
          /\ \A f \in DOMAIN cur.g : cur.g[f] = Undefined \/ ~HasColon(cur.g[f])
          /\ CanonicalGrn(cur.g)
  /\ (LastOp = "parseAction" /\ cur.t = "action")
       => /\ \A f \in DOMAIN cur.a :
               cur.a[f] # EmptyText /\ cur.a[f] # Undefined /\ ~HasColon(cur.a[f])
          /\ CanonicalAction(cur.a)

\* parseGrn returned a value with absent partition, region and tenantId
C27_Witness ==
  /\ ops = <<"parseGrn">>
  /\ orig = TextV(Join(<<GrnPrefix, EmptyText, <<"*">>, EmptyText, EmptyText, <<"a">> >>))
  /\ cur = GrnV([partition |-> Undefined, system |-> <<"*">>, region |-> Undefined,
                 tenantId |-> Undefined, resource |-> <<"a">>])

TransportPending(c) == reply[c] # NoValue /\ reply[c].kind = "pending"

\* a call is pending, with its span open, exactly while its post is pending
PendingWithTransport ==
  \A c \in Calls :
    /\ pc[c] = "awaiting" <=> TransportPending(c)
    /\ pc[c] = "awaiting" => (SpanStarted(c) /\ span[c].ended = 0)
    /\ (TransportFulfilled(c) \/ TransportFailed(c))
         => (Settled(c) /\ span[c].ended = 1)

\* a pending call settles only in the step in which its post settles
SettlesWithTransport ==
  \A c \in Calls :
    (pc[c] = "awaiting" /\ pc'[c] # "awaiting")
      => /\ reply'[c].kind \in {"fulfilled", "rejected"}
         /\ pc'[c] \in {"resolved", "rejected"}
         /\ span'[c].ended = 1

\* no call is pending and no span is open
AllSettledAndEnded ==
  \A c \in Calls : pc[c] # "awaiting" /\ (SpanStarted(c) => span[c].ended = 1)

\* C28: a call settles and ends its span whenever its transport call
\* settles, so that once the transport has settled its calls no call is
\* pending and no span open; a call has no timeout of its own, so it is
\* pending with its span open exactly as long as the transport call is
\* pending.
C28_SettlesWhenTransportSettles ==
  /\ [](PendingWithTransport)
  /\ [][SettlesWithTransport]_vars
  /\ <>[]AllSettledAndEnded

\* a call is pending on its post with its span open while another has
\* settled with the reply its post resolved with
C28_Witness ==
  \E c, d \in Calls :
    /\ pc[c] = "awaiting" /\ TransportPending(c) /\ span[c].ended = 0
    /\ Settled(d) /\ TransportFulfilled(d) /\ span[d].ended = 1
    /\ request[c] = request[d]

(***************************************************************************)
(* FetchHttpClient properties                                              *)
(***************************************************************************)
FetchSettled(k) == fpc[k] \in {"resolved", "rejected"}

\* C29 as stated: a post or get call whose response has not been fully
\* received and parsed when the configured timeout passes rejects with the
\* error 'Request timeout', and a call whose HTTP status is not ok rejects
\* with an 'HTTP error! status' error.
C29_TimeoutCoversWholeCall ==
  \A k \in FetchCalls :
    /\ elapsed[k] => (fpc[k] = "rejected" /\ fout[k] = TimeoutError)
    /\ (status[k] # "none" /\ ~Ok(status[k]))
         => (fpc[k] = "rejected" /\ fout[k] = HttpError(status[k]))

\* C30: post and get clear the timer on every exit path (success, HTTP error
\* status, network error, timeout): the timer is armed only while fetch is
\* awaited, a settled call has no armed timer, and a timer fires only on a
\* call that has not settled.
TimerDisarmed ==
  \A k \in FetchCalls :
    /\ timer[k] = "armed" <=> fpc[k] = "fetching"
    /\ FetchSettled(k) => timer[k] \in {"cleared", "fired"}
    /\ fpc[k] = "reading" => timer[k] = "cleared"
FiresBeforeSettling ==
  \A k \in FetchCalls :
    (timer'[k] = "fired" /\ timer[k] # "fired")
      => (fpc[k] = "fetching" /\ timer[k] = "armed")
C30_TimerClearedOnEveryExit == [](TimerDisarmed) /\ [][FiresBeforeSettling]_vars

\* one call resolved with its timer cleared although the timeout passed
\* afterwards, and another was rejected by the timer that fired
C30_Witness ==
  \E k, j \in FetchCalls :
    /\ fpc[k] = "resolved" /\ timer[k] = "cleared" /\ elapsed[k]
    /\ fpc[j] = "rejected" /\ timer[j] = "fired" /\ fout[j] = TimeoutError
    /\ method[k] # method[j]

====
